---- MODULE Spec2Model ----
(***************************************************************************)
(* Model of config/gcp_config.py: the module binds two globals, GCP_CONFIG *)
(* and BIGQUERY_CONFIG, to dict displays; consumers import the module and  *)
(* read them.                                                              *)
(*                                                                         *)
(* Python objects are tagged values [t |-> type, v |-> payload]:           *)
(*   str   payload is the text                                             *)
(*   list  payload is the sequence of the elements                         *)
(*   tuple payload is the sequence of the elements                         *)
(*   dict  payload is the sequence of <<key, value>> items in insertion    *)
(*         order, no key twice (keys are texts)                            *)
(*   none  the None object                                                 *)
(***************************************************************************)
EXTENDS Integers, Sequences, FiniteSets, TLC

VARIABLES
    pc,               \* position of the module's execution
    GCP_CONFIG,       \* module global, line 3
    BIGQUERY_CONFIG,  \* module global, line 15
    got,              \* per consumer: the last read and the object it yielded
    returned          \* every object a getStorageConfig call has yielded

vars == <<pc, GCP_CONFIG, BIGQUERY_CONFIG, got, returned>>

(***************************************************************************)
(* Bounds                                                                  *)
(***************************************************************************)
NumConsumers == 2

Consumers == 1..NumConsumers

(***************************************************************************)
(* Python objects                                                          *)
(***************************************************************************)
PyStr(s) == [t |-> "str", v |-> s]

PyList(xs) == [t |-> "list", v |-> xs]

PyTuple(xs) == [t |-> "tuple", v |-> xs]

PyNone == [t |-> "none", v |-> <<>>]

\* a name that holds no object yet
Unbound == [t |-> "unbound", v |-> <<>>]

\* position of key k among the items of a dict, 0 when absent
KeyIndex(items, k) ==
    IF \E i \in 1..Len(items) : items[i][1] = k
    THEN CHOOSE i \in 1..Len(items) : items[i][1] = k
    ELSE 0

\* d[k] = x on the items of a dict: an existing key keeps its position
SetItem(items, k, x) ==
    IF KeyIndex(items, k) = 0
    THEN Append(items, <<k, x>>)
    ELSE [items EXCEPT ![KeyIndex(items, k)] = <<k, x>>]

\* the items of the dict a display {k1: v1, k2: v2, ...} builds: the pairs
\* are stored left to right, a repeated key overwrites the earlier value
RECURSIVE DisplayItems(_)
DisplayItems(pairs) ==
    IF pairs = <<>>
    THEN <<>>
    ELSE SetItem(DisplayItems(SubSeq(pairs, 1, Len(pairs) - 1)),
                 pairs[Len(pairs)][1], pairs[Len(pairs)][2])

PyDict(pairs) == [t |-> "dict", v |-> DisplayItems(pairs)]

\* the keys of a dict, as a set and in order
Keys(d) == {d.v[i][1] : i \in 1..Len(d.v)}

KeySeq(d) == [i \in 1..Len(d.v) |-> d.v[i][1]]

\* d[k], for a key that is present
GetItem(d, k) == d.v[KeyIndex(d.v, k)][2]

(***************************************************************************)
(* The literals of the source                                              *)
(***************************************************************************)
\* lines 4-11
GCP_CONFIG_LITERAL ==
    << <<"project_id",             PyStr("hotel-booking-mlops")>>,
       <<"bucket_name",            PyStr("hotel-booking-mlops-data")>>,
       <<"dataset_id",             PyStr("hotel_booking_mlops")>>,
       <<"location",               PyStr("us-central1")>>,
       <<"storage_class",          PyStr("STANDARD")>>,
       <<"raw_data_prefix",        PyStr("raw/")>>,
       <<"processed_data_prefix",  PyStr("processed/")>>,
       <<"model_artifacts_prefix", PyStr("models/")>> >>

\* one entry of the schema list: {'name': n, 'type': ty}
Field(n, ty) == PyDict(<< <<"name", PyStr(n)>>, <<"type", PyStr(ty)>> >>)

\* lines 18-49
SCHEMA_LITERAL ==
    << Field("hotel", "STRING"),
       Field("is_canceled", "INTEGER"),
       Field("lead_time", "INTEGER"),
       Field("arrival_date_year", "INTEGER"),
       Field("arrival_date_month", "STRING"),
       Field("arrival_date_week_number", "INTEGER"),
       Field("arrival_date_day_of_month", "INTEGER"),
       Field("stays_in_weekend_nights", "INTEGER"),
       Field("stays_in_week_nights", "INTEGER"),
       Field("adults", "INTEGER"),
       Field("children", "INTEGER"),
       Field("babies", "INTEGER"),
       Field("meal", "STRING"),
       Field("country", "STRING"),
       Field("market_segment", "STRING"),
       Field("distribution_channel", "STRING"),
       Field("is_repeated_guest", "INTEGER"),
       Field("previous_cancellations", "INTEGER"),
       Field("previous_bookings_not_canceled", "INTEGER"),
       Field("reserved_room_type", "STRING"),
       Field("assigned_room_type", "STRING"),
       Field("booking_changes", "INTEGER"),
       Field("deposit_type", "STRING"),
       Field("agent", "STRING"),
       Field("company", "STRING"),
       Field("days_in_waiting_list", "INTEGER"),
       Field("customer_type", "STRING"),
       Field("adr", "FLOAT"),
       Field("required_car_parking_spaces", "INTEGER"),
       Field("total_of_special_requests", "INTEGER"),
       Field("reservation_status", "STRING"),
       Field("reservation_status_date", "DATE") >>

\* the list with its last entry left out
SchemaListShort == PyList(SubSeq(SCHEMA_LITERAL, 1, Len(SCHEMA_LITERAL) - 1))

\* the list with the last entry named as the entry before it
SchemaListDupName ==
    PyList([SCHEMA_LITERAL EXCEPT ![32] = Field("reservation_status", "DATE")])

\* the list with a type BigQuery knows and the schema does not use
SchemaListOtherType ==
    PyList([SCHEMA_LITERAL EXCEPT ![2] = Field("is_canceled", "BOOLEAN")])

\* the list with the rate typed as the counts are
SchemaListAdrInteger ==
    PyList([SCHEMA_LITERAL EXCEPT ![28] = Field("adr", "INTEGER")])

\* the list with an entry that lacks its type
SchemaListNoType ==
    PyList([SCHEMA_LITERAL EXCEPT ![13] = PyDict(<< <<"name", PyStr("meal")>> >>)])

\* the entries in parentheses, a tuple display
SchemaListAsTuple == PyTuple(SCHEMA_LITERAL)

\* the list display of lines 17-50
SchemaList == PyList(SCHEMA_LITERAL)

\* lines 16-50
BIGQUERY_CONFIG_LITERAL ==
    << <<"booking_table", PyStr("hotel_bookings")>>,
       <<"schema",        SchemaList>> >>

\* the settings with a prefix that lacks its separator
GcpConfigBarePrefix ==
    PyDict([GCP_CONFIG_LITERAL EXCEPT ![6] = <<"raw_data_prefix", PyStr("raw")>>])

\* the dict display of lines 3-12
GcpConfigObject == PyDict(GCP_CONFIG_LITERAL)

\* the dict display of lines 15-51
BigqueryConfigObject == PyDict(BIGQUERY_CONFIG_LITERAL)

(***************************************************************************)
(* Execution of the module                                                 *)
(***************************************************************************)
NoRead == [op |-> "none", arg |-> "", res |-> PyNone]

Init ==
    /\ pc = "line3"
    /\ GCP_CONFIG = Unbound
    /\ BIGQUERY_CONFIG = Unbound
    /\ got = [c \in Consumers |-> NoRead]
    /\ returned = {}

\* GCP_CONFIG = {...}
AssignGcpConfig ==
    /\ pc = "line3"
    /\ GCP_CONFIG' = GcpConfigObject
    /\ pc' = "line15"
    /\ UNCHANGED <<BIGQUERY_CONFIG, got, returned>>

\* BIGQUERY_CONFIG = {...}; the module is imported once this has run
AssignBigqueryConfig ==
    /\ pc = "line15"
    /\ BIGQUERY_CONFIG' = BigqueryConfigObject
    /\ pc' = "loaded"
    /\ UNCHANGED <<GCP_CONFIG, got, returned>>

(***************************************************************************)
(* Reads by consumers of the imported module                               *)
(***************************************************************************)
Read(c, op, arg, res) == got' = [got EXCEPT ![c] = [op |-> op, arg |-> arg, res |-> res]]

\* the storage settings: the object GCP_CONFIG names
getStorageConfig(c) ==
    /\ pc = "loaded"
    /\ Read(c, "getStorageConfig", "", GCP_CONFIG)
    /\ returned' = returned \cup {GCP_CONFIG}
    /\ UNCHANGED <<pc, GCP_CONFIG, BIGQUERY_CONFIG>>

\* the table name and the field list: the object BIGQUERY_CONFIG names
getTableSchema(c) ==
    /\ pc = "loaded"
    /\ Read(c, "getTableSchema", "", BIGQUERY_CONFIG)
    /\ UNCHANGED <<pc, GCP_CONFIG, BIGQUERY_CONFIG, returned>>

\* GCP_CONFIG[k] with the dict's item removed by the read: GCP_CONFIG.pop(k)
ReadSettingPop(c, k) ==
    /\ pc = "loaded"
    /\ k \in Keys(GCP_CONFIG)
    /\ Read(c, "setting", k, GetItem(GCP_CONFIG, k))
    /\ GCP_CONFIG' = [GCP_CONFIG EXCEPT !.v =
                        SelectSeq(GCP_CONFIG.v, LAMBDA it : it[1] # k)]
    /\ UNCHANGED <<pc, BIGQUERY_CONFIG, returned>>

\* GCP_CONFIG[k]
ReadSetting(c, k) ==
    /\ pc = "loaded"
    /\ k \in Keys(GCP_CONFIG)
    /\ Read(c, "setting", k, GetItem(GCP_CONFIG, k))
    /\ UNCHANGED <<pc, GCP_CONFIG, BIGQUERY_CONFIG, returned>>

\* the keys of lines 4-11
SettingNames == {GCP_CONFIG_LITERAL[i][1] : i \in 1..Len(GCP_CONFIG_LITERAL)}

\* BIGQUERY_CONFIG['booking_table']
ReadTableName(c) ==
    /\ pc = "loaded"
    /\ Read(c, "table", "booking_table", GetItem(BIGQUERY_CONFIG, "booking_table"))
    /\ UNCHANGED <<pc, GCP_CONFIG, BIGQUERY_CONFIG, returned>>

(***************************************************************************)
(* Lookup of a field by name (the scenario of the testable properties):    *)
(* a scan of the list in order, None when no entry carries the name.       *)
(***************************************************************************)
Schema(cfg) == GetItem(cfg, "schema").v

NameAt(schema, i) == GetItem(schema[i], "name").v

TypeAt(schema, i) == GetItem(schema[i], "type").v

FieldType(schema, n) ==
    LET hits == {i \in 1..Len(schema) : NameAt(schema, i) = n}
    IN  IF hits = {}
        THEN PyNone
        ELSE GetItem(schema[CHOOSE i \in hits : \A j \in hits : i <= j], "type")

\* names a consumer asks for: the scenario's, the first field, a field whose
\* name is a prefix of another's
LookupNames ==
    {"hotel", "adr", "reservation_status", "reservation_status_date",
     "nonexistent_field"}

LookupField(c, n) ==
    /\ pc = "loaded"
    /\ Read(c, "lookup", n, FieldType(Schema(BIGQUERY_CONFIG), n))
    /\ UNCHANGED <<pc, GCP_CONFIG, BIGQUERY_CONFIG, returned>>

(***************************************************************************)
(* Serialization to JSON and back.  A JSON text is its sequence of tokens: *)
(* punctuation, string tokens carrying their text, and null.  Writing maps *)
(* str to a string token, None to null, list and tuple alike to an array   *)
(* and dict to an object whose members follow the insertion order;         *)
(* parsing builds str, None, list and dict.                                *)
(***************************************************************************)
Punct(s) == [k |-> "punct", s |-> s]

StringTok(s) == [k |-> "string", s |-> s]

NullTok == [k |-> "null", s |-> ""]

RECURSIVE Dumps(_), DumpElems(_, _), DumpMembers(_, _)

\* the elements xs[i..] of an array, separated by commas
DumpElems(xs, i) ==
    IF i > Len(xs) THEN <<>>
    ELSE (IF i > 1 THEN <<Punct(",")>> ELSE <<>>) \o Dumps(xs[i]) \o DumpElems(xs, i + 1)

\* the members items[i..] of an object, separated by commas
DumpMembers(items, i) ==
    IF i > Len(items) THEN <<>>
    ELSE (IF i > 1 THEN <<Punct(",")>> ELSE <<>>)
            \o <<StringTok(items[i][1]), Punct(":")>> \o Dumps(items[i][2])
            \o DumpMembers(items, i + 1)

Dumps(x) ==
    CASE x.t = "str" -> <<StringTok(x.v)>>
      [] x.t = "none" -> <<NullTok>>
      [] x.t \in {"list", "tuple"} -> <<Punct("[")>> \o DumpElems(x.v, 1) \o <<Punct("]")>>
      [] x.t = "dict" -> <<Punct("{")>> \o DumpMembers(x.v, 1) \o <<Punct("}")>>

RECURSIVE ParseValue(_, _), ParseElems(_, _, _), ParseMembers(_, _, _)

\* the value that starts at token i, and the position after it
ParseValue(ts, i) ==
    CASE ts[i].k = "string" -> [val |-> PyStr(ts[i].s), next |-> i + 1]
      [] ts[i].k = "null" -> [val |-> PyNone, next |-> i + 1]
      [] ts[i] = Punct("[") ->
            IF ts[i + 1] = Punct("]")
            THEN [val |-> PyList(<<>>), next |-> i + 2]
            ELSE ParseElems(ts, i + 1, <<>>)
      [] ts[i] = Punct("{") ->
            IF ts[i + 1] = Punct("}")
            THEN [val |-> PyDict(<<>>), next |-> i + 2]
            ELSE ParseMembers(ts, i + 1, <<>>)

\* the rest of an array whose elements so far are acc
ParseElems(ts, i, acc) ==
    LET r == ParseValue(ts, i)
    IN  IF ts[r.next] = Punct(",")
        THEN ParseElems(ts, r.next + 1, Append(acc, r.val))
        ELSE [val |-> PyList(Append(acc, r.val)), next |-> r.next + 1]

\* the rest of an object whose members so far are acc
ParseMembers(ts, i, acc) ==
    LET r == ParseValue(ts, i + 2)
    IN  IF ts[r.next] = Punct(",")
        THEN ParseMembers(ts, r.next + 1, Append(acc, <<ts[i].s, r.val>>))
        ELSE [val |-> PyDict(Append(acc, <<ts[i].s, r.val>>)), next |-> r.next + 1]

Loads(ts) == ParseValue(ts, 1).val

\* the two configuration objects by name
ConfigNames == {"GCP_CONFIG", "BIGQUERY_CONFIG"}

ConfigObject(name) == IF name = "GCP_CONFIG" THEN GCP_CONFIG ELSE BIGQUERY_CONFIG

\* a consumer writes one of the objects as JSON and parses the text back
RoundTrip(c, name) ==
    /\ pc = "loaded"
    /\ Read(c, "roundtrip", name, Loads(Dumps(ConfigObject(name))))
    /\ UNCHANGED <<pc, GCP_CONFIG, BIGQUERY_CONFIG, returned>>

Next ==
    \/ AssignGcpConfig
    \/ AssignBigqueryConfig
    \/ \E c \in Consumers : getStorageConfig(c)
    \/ \E c \in Consumers : getTableSchema(c)
    \/ \E c \in Consumers : \E k \in SettingNames : ReadSetting(c, k)
    \/ \E c \in Consumers : ReadTableName(c)
    \/ \E c \in Consumers : \E n \in LookupNames : LookupField(c, n)

Spec == Init /\ [][Next]_vars

\* the module's execution, whole-object reads and serialization
NextJson ==
    \/ AssignGcpConfig
    \/ AssignBigqueryConfig
    \/ \E c \in Consumers : getStorageConfig(c)
    \/ \E c \in Consumers : getTableSchema(c)
    \/ \E c \in Consumers : \E n \in LookupNames : LookupField(c, n)
    \/ \E c \in Consumers : \E name \in ConfigNames : RoundTrip(c, name)

SpecJson == Init /\ [][NextJson]_vars

(***************************************************************************)
(* Stores.  The two globals name ordinary dict and list objects, so the    *)
(* interpreter accepts item assignment on them from any importer.          *)
(***************************************************************************)
StoredSettings == {"bucket_name"}

StoredValues == {PyStr(""), PyStr("scratch")}

\* GCP_CONFIG[k] = x
StoreSetting(c, k, x) ==
    /\ pc = "loaded"
    /\ GCP_CONFIG' = [GCP_CONFIG EXCEPT !.v = SetItem(GCP_CONFIG.v, k, x)]
    /\ UNCHANGED <<pc, BIGQUERY_CONFIG, got, returned>>

\* BIGQUERY_CONFIG['schema'].pop()
PopField(c) ==
    /\ pc = "loaded"
    /\ Len(Schema(BIGQUERY_CONFIG)) = Len(SCHEMA_LITERAL)
    /\ BIGQUERY_CONFIG' =
          [BIGQUERY_CONFIG EXCEPT !.v =
              SetItem(BIGQUERY_CONFIG.v, "schema",
                      PyList(SubSeq(Schema(BIGQUERY_CONFIG), 1,
                                    Len(Schema(BIGQUERY_CONFIG)) - 1)))]
    /\ UNCHANGED <<pc, GCP_CONFIG, got, returned>>

NextWithStores ==
    \/ AssignGcpConfig
    \/ AssignBigqueryConfig
    \/ \E c \in Consumers : getStorageConfig(c)
    \/ \E c \in Consumers : getTableSchema(c)
    \/ \E c \in Consumers : \E k \in StoredSettings : \E x \in StoredValues : StoreSetting(c, k, x)
    \/ \E c \in Consumers : PopField(c)

SpecWithStores == Init /\ [][NextWithStores]_vars

(***************************************************************************)
(* Properties                                                              *)
(***************************************************************************)
Loaded == pc = "loaded"

ReadBy(c, op) == got[c].op = op

\* C1 as stated: once the module is loaded, BIGQUERY_CONFIG['schema'] has
\* exactly 31 field descriptors.
C1_Count31 == Loaded => Len(Schema(BIGQUERY_CONFIG)) = 31

\* C1, amended: once the module is loaded, BIGQUERY_CONFIG['schema'] has
\* exactly 32 field descriptors, whatever reads have happened.
C1_Count32 == Loaded => Len(Schema(BIGQUERY_CONFIG)) = 32

C1_Witness ==
    /\ Loaded
    /\ \E c \in Consumers :
          /\ ReadBy(c, "getTableSchema")
          /\ Len(Schema(got[c].res)) = 32

\* C2: the names at any two distinct positions of BIGQUERY_CONFIG['schema']
\* differ.
C2_NamesDistinct ==
    Loaded =>
        \A i, j \in 1..Len(Schema(BIGQUERY_CONFIG)) :
            i # j => NameAt(Schema(BIGQUERY_CONFIG), i) # NameAt(Schema(BIGQUERY_CONFIG), j)

C2_Witness ==
    /\ Loaded
    /\ \E c \in Consumers :
          /\ ReadBy(c, "getTableSchema")
          /\ Len(Schema(got[c].res)) >= 2
          /\ NameAt(Schema(got[c].res), 31) = "reservation_status"
          /\ NameAt(Schema(got[c].res), 32) = "reservation_status_date"

\* C3: the type of every field descriptor of BIGQUERY_CONFIG['schema'] is
\* one of STRING, INTEGER, FLOAT, DATE.
C3_TypesInEnumeration ==
    Loaded =>
        \A i \in 1..Len(Schema(BIGQUERY_CONFIG)) :
            /\ GetItem(Schema(BIGQUERY_CONFIG)[i], "type").t = "str"
            /\ TypeAt(Schema(BIGQUERY_CONFIG), i) \in {"STRING", "INTEGER", "FLOAT", "DATE"}

C3_Witness ==
    /\ Loaded
    /\ \E c \in Consumers :
          /\ ReadBy(c, "getTableSchema")
          /\ {TypeAt(Schema(got[c].res), i) : i \in 1..Len(Schema(got[c].res))}
                = {"STRING", "INTEGER", "FLOAT", "DATE"}

EndsWithSeparator(s) == Len(s) > 0 /\ SubSeq(s, Len(s), Len(s)) = "/"

\* C5: raw_data_prefix, processed_data_prefix and model_artifacts_prefix of
\* GCP_CONFIG are non-empty strings whose last character is '/'.
C5_PrefixesEndInSeparator ==
    pc # "line3" =>
        \A k \in {"raw_data_prefix", "processed_data_prefix", "model_artifacts_prefix"} :
            /\ k \in Keys(GCP_CONFIG)
            /\ GetItem(GCP_CONFIG, k).t = "str"
            /\ EndsWithSeparator(GetItem(GCP_CONFIG, k).v)

C5_Witness ==
    \E c \in Consumers :
        /\ ReadBy(c, "setting")
        /\ got[c].arg = "raw_data_prefix"
        /\ got[c].res = PyStr("raw/")

\* C7: any two calls of getStorageConfig, whatever reads happen between
\* them, yield the same value for each of the eight settings.
C7_SameOnEveryCall ==
    /\ \A x, y \in returned :
          /\ Keys(x) = Keys(y)
          /\ \A k \in Keys(x) : GetItem(x, k) = GetItem(y, k)
    /\ \A c \in Consumers : ReadBy(c, "getStorageConfig") => got[c].res \in returned

C7_Witness ==
    /\ Cardinality(Keys(GCP_CONFIG)) = 8
    /\ \E c, d \in Consumers :
          /\ c # d
          /\ ReadBy(c, "getStorageConfig")
          /\ ReadBy(d, "getStorageConfig")

NonEmptyStr(x) == x.t = "str" /\ x.v # ""

\* C10: GCP_CONFIG has exactly the eight settings, each a non-empty string;
\* the table name is 'hotel_bookings'; every field descriptor has exactly
\* the keys name and type, both non-empty strings.
C10_SettingsComplete ==
    Loaded =>
        /\ GCP_CONFIG.t = "dict"
        /\ Len(GCP_CONFIG.v) = 8
        /\ Keys(GCP_CONFIG) =
              {"project_id", "bucket_name", "dataset_id", "location", "storage_class",
               "raw_data_prefix", "processed_data_prefix", "model_artifacts_prefix"}
        /\ \A k \in Keys(GCP_CONFIG) : NonEmptyStr(GetItem(GCP_CONFIG, k))
        /\ GetItem(BIGQUERY_CONFIG, "booking_table") = PyStr("hotel_bookings")
        /\ \A i \in 1..Len(Schema(BIGQUERY_CONFIG)) :
              /\ Schema(BIGQUERY_CONFIG)[i].t = "dict"
              /\ Len(Schema(BIGQUERY_CONFIG)[i].v) = 2
              /\ Keys(Schema(BIGQUERY_CONFIG)[i]) = {"name", "type"}
              /\ NonEmptyStr(GetItem(Schema(BIGQUERY_CONFIG)[i], "name"))
              /\ NonEmptyStr(GetItem(Schema(BIGQUERY_CONFIG)[i], "type"))

C10_Witness ==
    /\ \E c \in Consumers :
          /\ ReadBy(c, "getStorageConfig")
          /\ Len(got[c].res.v) = 8
    /\ \E c \in Consumers :
          /\ ReadBy(c, "table")
          /\ got[c].res = PyStr("hotel_bookings")
\* C6: after initialization GCP_CONFIG and BIGQUERY_CONFIG hold exactly the
\* values they were constructed with, and no operation a consumer has can
\* change them.
C6_NeverWritten ==
    Loaded => GCP_CONFIG = GcpConfigObject /\ BIGQUERY_CONFIG = BigqueryConfigObject

====
